---- MODULE Spec2Model ----
(***************************************************************************)
(* Model of the AWS (Bedrock) relay adaptor and the shared request helper  *)
(* of one-api:                                                             *)
(*   relay/adaptor/aws/main.go  : newAwsClient, wrapErr, awsModelID,       *)
(*                                Handler, StreamHandler                   *)
(*   relay/channel/common.go    : SetupCommonRequestHeader,                *)
(*                                DoRequestHelper, DoRequest               *)
(* One operation is invoked from the idle state; StreamHandler then runs   *)
(* its write loop one step at a time (pull an event, handle it).           *)
(***************************************************************************)
EXTENDS Integers, Sequences, FiniteSets, TLC

\* Number of native events the provider may deliver on one stream.
MaxEvents == 4

\* http.StatusInternalServerError, pinned by wrapErr.
StatusInternalServerError == 500

\* http.StatusOK, the status of the unary response written by Handler.
StatusOK == 200

-----------------------------------------------------------------------------
(* Inputs *)

\* Channel keys as character sequences; "\n" is the separator newAwsClient splits on.
Keys ==
    { <<>>, <<"A">>, <<"A", "\n", "S">>, <<"\n">>, <<"A", "\n", "S", "\n">> }

\* Request model names handed to StreamHandler (one of the table, one outside it).
StreamModels == { "claude-3-haiku-20240307", "gpt-4" }

OriginModels == { "claude-3-haiku" }

\* Request model names handed to the unary Handler: the whole table and one name outside it.
HandlerModels ==
    { "claude-instant-1.2", "claude-2.0", "claude-2.1", "claude-3-sonnet-20240229",
      "claude-3-opus-20240229", "claude-3-haiku-20240307", "gpt-4" }

\* The modelName argument of Handler.
ModelNames == { "claude-3-haiku", "my-alias" }

\* The model field of the native response.
NativeModels == { "claude-3-haiku", "claude-3-haiku-20240307" }

\* Usage counts of the native unary response.
TokenCounts == { 0, 5, 10 }

\* awsResp.Body as decoded into an anthropic.Response; decodeOk is json.Unmarshal's outcome.
NoAwsResp ==
    [present |-> FALSE, decodeOk |-> FALSE, Model |-> "", InputTokens |-> 0,
     OutputTokens |-> 0]

AwsResponses ==
    { [present |-> TRUE, decodeOk |-> TRUE, Model |-> m, InputTokens |-> i,
       OutputTokens |-> o] : m \in NativeModels, i \in TokenCounts, o \in TokenCounts }
    \cup { [present |-> TRUE, decodeOk |-> FALSE, Model |-> "", InputTokens |-> 0,
            OutputTokens |-> 0] }

Timestamps == { 1711111111 }

\* Metadata (an *anthropic.Response) carried by a decoded chunk; present = (meta != nil).
NoMeta == [present |-> FALSE, Id |-> "", InputTokens |-> 0, OutputTokens |-> 0]

Metas ==
    { [present |-> TRUE, Id |-> "a", InputTokens |-> 1, OutputTokens |-> 2],
      [present |-> TRUE, Id |-> "b", InputTokens |-> 3, OutputTokens |-> 0] }

\* Canonical content (an *openai.ChatCompletionsStreamResponse) of a decoded chunk.
NoResponse == [present |-> FALSE, Content |-> ""]

Responses ==
    { [present |-> TRUE, Content |-> "x"], [present |-> TRUE, Content |-> "y"] }

\* A native event: types.ResponseStreamMemberChunk ("chunk"), types.UnknownUnionMember
\* ("unknown") or anything else, nil included ("nil").  A chunk either fails to decode
\* or decodes to a payload; marshalOk is the outcome of json.Marshal on its content.
MkEvent(t, d, m, r, j) ==
    [type |-> t, decodeOk |-> d, meta |-> m, response |-> r, marshalOk |-> j]

NoEvent == MkEvent("none", FALSE, NoMeta, NoResponse, FALSE)

ChunkEvents ==
    { MkEvent("chunk", TRUE, m, r, TRUE) : m \in Metas \cup {NoMeta}, r \in Responses \cup {NoResponse} }
    \cup { MkEvent("chunk", TRUE, NoMeta, [present |-> TRUE, Content |-> "x"], FALSE) }
    \cup { MkEvent("chunk", FALSE, NoMeta, NoResponse, FALSE) }

Events ==
    ChunkEvents
    \cup { MkEvent("unknown", FALSE, NoMeta, NoResponse, FALSE),
           MkEvent("nil", FALSE, NoMeta, NoResponse, FALSE) }

-----------------------------------------------------------------------------
(* Values *)

ZeroUsage == [PromptTokens |-> 0, CompletionTokens |-> 0, TotalTokens |-> 0]

NoRet ==
    [returned |-> FALSE, errNil |-> TRUE, StatusCode |-> 0, Message |-> "",
     usageNil |-> TRUE, usage |-> ZeroUsage]

DoneFrame == [kind |-> "done", Id |-> "", Model |-> "", Created |-> 0, Data |-> "[DONE]"]

ChunkFrame(i, m, t, content) ==
    [kind |-> "chunk", Id |-> i, Model |-> m, Created |-> t, Data |-> content]

NoCtx == [hasChannel |-> FALSE, Key |-> <<>>, RequestModel |-> "", OriginModel |-> "",
          hasRequest |-> FALSE]

\* Outcomes of copier.Copy, json.Marshal and the Invoke call of one Handler/StreamHandler call.
NoExt == [copyOk |-> FALSE, marshalOk |-> FALSE, invokeOk |-> FALSE]

\* The InvokeModel(WithResponseStream)Input handed to the upstream call.
NoAwsReq == [present |-> FALSE, ModelId |-> "", Accept |-> "", ContentType |-> ""]

\* The JSON body Handler writes with c.JSON.
NoWritten == [present |-> FALSE, StatusCode |-> 0, Model |-> "", Usage |-> ZeroUsage]

VARIABLES
    pc,          \* "idle", "loop", "handling", "returned", "doRequestReturned",
                 \* "handlerReturned", "headerReturned", "helperReturned"
    ctx,         \* the values the gin context holds for the call
    createdTime, \* helper.GetTimestamp() taken at entry
    upstream,    \* number of InvokeModel / InvokeModelWithResponseStream calls issued
    streamState, \* "none", "open", "closed": the native event stream
    closeCalls,  \* number of stream.Close() calls
    clientGone,  \* the writer's CloseNotify channel has fired
    received,    \* native events pulled from stream.Events(), in order
    event,       \* the event being handled by the step callback
    usage,       \* var usage relaymodel.Usage
    id,          \* var id string
    frames,      \* frames rendered to the client, in order
    origin,      \* for each frame, the index in received of the event it was written for
    pumpExit,    \* which path ended the write loop
    ret,         \* what StreamHandler or Handler returned
    doReq,       \* DoRequest: bodies and result
    ext,         \* outcomes of the external calls of the Handler/StreamHandler call
    awsReq,      \* the input of the upstream call, once built and issued
    modelName,   \* Handler's modelName argument
    awsResp,     \* the native unary response
    written,     \* the body Handler wrote to the client
    hdr,         \* SetupCommonRequestHeader: inbound headers, stream flag, outbound headers
    helper,      \* DoRequestHelper: stages run and result
    stageOk      \* DoRequestHelper: outcome of GetRequestURL, NewRequest, SetupRequestHeader

vars ==
    << pc, ctx, createdTime, upstream, streamState, closeCalls, clientGone, received,
       event, usage, id, frames, origin, pumpExit, ret, doReq, ext, awsReq, modelName,
       awsResp, written, hdr, helper, stageOk >>

\* What only Handler, SetupCommonRequestHeader and DoRequestHelper write.
unaryVars == << modelName, awsResp, written, hdr, helper, stageOk >>

restVars == << ext, awsReq, modelName, awsResp, written, hdr, helper, stageOk >>

streamVars ==
    << ctx, createdTime, upstream, streamState, closeCalls, clientGone, received,
       event, usage, id, frames, origin, pumpExit, ret >>

NoDoReq ==
    [outcome |-> "none", reqBodyClosed |-> FALSE, inBodyClosed |-> FALSE,
     respNil |-> TRUE, errNil |-> TRUE]

NoHdr ==
    [inContentType |-> "", inAccept |-> "", IsStream |-> FALSE,
     outContentType |-> "", outAccept |-> ""]

NoStageOk == [url |-> FALSE, new |-> FALSE, header |-> FALSE]

NoHelper ==
    [stages |-> <<>>, respNil |-> TRUE, errNil |-> TRUE, Message |-> "", doCalls |-> 0]

Init ==
    /\ pc = "idle"
    /\ ctx = NoCtx
    /\ createdTime = 0
    /\ upstream = 0
    /\ streamState = "none"
    /\ closeCalls = 0
    /\ clientGone = FALSE
    /\ received = <<>>
    /\ event = NoEvent
    /\ usage = ZeroUsage
    /\ id = ""
    /\ frames = <<>>
    /\ origin = <<>>
    /\ pumpExit = "none"
    /\ ret = NoRet
    /\ doReq = NoDoReq
    /\ ext = NoExt
    /\ awsReq = NoAwsReq
    /\ modelName = ""
    /\ awsResp = NoAwsResp
    /\ written = NoWritten
    /\ hdr = NoHdr
    /\ helper = NoHelper
    /\ stageOk = NoStageOk

-----------------------------------------------------------------------------
(* Pure functions of relay/adaptor/aws/main.go *)

\* strings.Split(s, "\n"): the components between separators ("" gives one empty component).
RECURSIVE Split(_)
Split(s) ==
    IF s = <<>> THEN << <<>> >>
    ELSE LET rest == Split(Tail(s))
         IN  IF Head(s) = "\n"
             THEN << <<>> >> \o rest
             ELSE << <<Head(s)>> \o Head(rest) >> \o Tail(rest)

\* Variant of newAwsClient: only keys with fewer than two components are refused.
newAwsClientAtLeastTwo(key) ==
    LET ks == Split(key)
    IN  IF Len(ks) < 2
        THEN [ok |-> FALSE, ak |-> <<>>, sk |-> <<>>]
        ELSE [ok |-> TRUE, ak |-> ks[1], sk |-> ks[2]]

\* newAwsClient: fails unless the key has exactly two components.
newAwsClient(key) ==
    LET ks == Split(key)
    IN  IF Len(ks) # 2
        THEN [ok |-> FALSE, ak |-> <<>>, sk |-> <<>>]
        ELSE [ok |-> TRUE, ak |-> ks[1], sk |-> ks[2]]

\* Variant of awsModelID: a name outside the table falls back to a default model.
awsModelIDWithDefault(requestModel) ==
    CASE requestModel = "claude-instant-1.2" -> [ok |-> TRUE, id |-> "anthropic.claude-instant-v1"]
      [] requestModel = "claude-2.0" -> [ok |-> TRUE, id |-> "anthropic.claude-v2"]
      [] requestModel = "claude-2.1" -> [ok |-> TRUE, id |-> "anthropic.claude-v2:1"]
      [] requestModel = "claude-3-sonnet-20240229" -> [ok |-> TRUE, id |-> "anthropic.claude-3-sonnet-20240229-v1:0"]
      [] requestModel = "claude-3-opus-20240229" -> [ok |-> TRUE, id |-> "anthropic.claude-3-opus-20240229-v1:0"]
      [] requestModel = "claude-3-haiku-20240307" -> [ok |-> TRUE, id |-> "anthropic.claude-3-haiku-20240307-v1:0"]
      [] OTHER -> [ok |-> TRUE, id |-> "anthropic.claude-v2"]

\* awsModelID: the static table; "" with an error for any other name.
awsModelID(requestModel) ==
    CASE requestModel = "claude-instant-1.2" -> [ok |-> TRUE, id |-> "anthropic.claude-instant-v1"]
      [] requestModel = "claude-2.0" -> [ok |-> TRUE, id |-> "anthropic.claude-v2"]
      [] requestModel = "claude-2.1" -> [ok |-> TRUE, id |-> "anthropic.claude-v2:1"]
      [] requestModel = "claude-3-sonnet-20240229" -> [ok |-> TRUE, id |-> "anthropic.claude-3-sonnet-20240229-v1:0"]
      [] requestModel = "claude-3-opus-20240229" -> [ok |-> TRUE, id |-> "anthropic.claude-3-opus-20240229-v1:0"]
      [] requestModel = "claude-3-haiku-20240307" -> [ok |-> TRUE, id |-> "anthropic.claude-3-haiku-20240307-v1:0"]
      [] OTHER -> [ok |-> FALSE, id |-> ""]

\* wrapErr(err), returned together with a nil usage: status 500 and the message.
wrapErr(msg) ==
    [returned |-> TRUE, errNil |-> FALSE, StatusCode |-> StatusInternalServerError,
     Message |-> msg, usageNil |-> TRUE, usage |-> ZeroUsage]

\* anthropic.StreamResponseClaude2OpenAI: the (response, meta) pair of a decoded chunk.
StreamResponseClaude2OpenAI(claudeResp) ==
    [response |-> claudeResp.response, meta |-> claudeResp.meta]

-----------------------------------------------------------------------------
(* StreamHandler: everything before the write loop (main.go 137-188) *)

\* awsReq: the model id of the table with the fixed Accept and ContentType.
BuildAwsReq(requestModel) ==
    [present |-> TRUE, ModelId |-> awsModelID(requestModel).id,
     Accept |-> "application/json", ContentType |-> "application/json"]

\* The first check that fails, in the order of the code; "" when the stream gets opened.
StreamSetupError(c, copyOk, marshalOk, invokeOk) ==
    IF ~c.hasChannel THEN "channel not found"
    ELSE IF ~newAwsClient(c.Key).ok THEN "newAwsClient: invalid key"
    ELSE IF ~awsModelID(c.RequestModel).ok THEN "awsModelID: unknown model"
    ELSE IF ~c.hasRequest THEN "request not found"
    ELSE IF ~copyOk THEN "copy request"
    ELSE IF ~marshalOk THEN "marshal request"
    ELSE IF ~invokeOk THEN "InvokeModelWithResponseStream"
    ELSE ""

\* InvokeModelWithResponseStream is reached only when every earlier check passed.
StreamReachesInvoke(c, copyOk, marshalOk) ==
    StreamSetupError(c, copyOk, marshalOk, TRUE) = ""

StreamHandlerCall ==
    /\ pc = "idle"
    /\ \E hc \in BOOLEAN, k \in Keys, rm \in StreamModels, om \in OriginModels,
          hr \in BOOLEAN, copyOk \in BOOLEAN, marshalOk \in BOOLEAN,
          invokeOk \in BOOLEAN, t \in Timestamps :
          LET c == [hasChannel |-> hc, Key |-> k, RequestModel |-> rm,
                    OriginModel |-> om, hasRequest |-> hr]
              e == StreamSetupError(c, copyOk, marshalOk, invokeOk)
          IN  /\ ctx' = c
              /\ createdTime' = t
              /\ ext' = [copyOk |-> copyOk, marshalOk |-> marshalOk, invokeOk |-> invokeOk]
              /\ upstream' = IF StreamReachesInvoke(c, copyOk, marshalOk)
                             THEN upstream + 1 ELSE upstream
              /\ awsReq' = IF StreamReachesInvoke(c, copyOk, marshalOk)
                           THEN BuildAwsReq(c.RequestModel) ELSE awsReq
              /\ IF e # ""
                 THEN /\ pc' = "returned"
                      /\ ret' = wrapErr(e)
                      /\ streamState' = streamState
                 ELSE /\ pc' = "loop"
                      /\ ret' = ret
                      /\ streamState' = "open"
    /\ UNCHANGED << closeCalls, clientGone, received, event, usage, id, frames,
                    origin, pumpExit, doReq, unaryVars >>

-----------------------------------------------------------------------------
(* StreamHandler: the write loop c.Stream(step) and its exits (main.go 184-234) *)

\* Variant of CloseStream: the deferred close is missing.
CloseStreamMissing ==
    /\ streamState' = streamState
    /\ closeCalls' = closeCalls

\* defer stream.Close()
CloseStream ==
    /\ streamState' = "closed"
    /\ closeCalls' = closeCalls + 1

\* return nil, &usage  -- with the deferred close.
StreamReturn(exit) ==
    /\ pc' = "returned"
    /\ pumpExit' = exit
    /\ ret' = [returned |-> TRUE, errNil |-> TRUE, StatusCode |-> 0, Message |-> "",
               usageNil |-> FALSE, usage |-> usage]
    /\ CloseStream

\* Variant of Render: the frame is put in front of the frames already written.
RenderInFront(frame, n) ==
    /\ frames' = <<frame>> \o frames
    /\ origin' = <<n>> \o origin

\* c.Render(-1, common.CustomEvent{...}): one more frame on the client connection.
Render(frame, n) ==
    /\ frames' = Append(frames, frame)
    /\ origin' = Append(origin, n)

\* Variant of AddUsage: the counts are assigned instead of added.
AddUsageAssign(u, meta) ==
    [u EXCEPT !.PromptTokens = meta.InputTokens,
              !.CompletionTokens = meta.OutputTokens]

\* usage.PromptTokens += ...; usage.CompletionTokens += ...
AddUsage(u, meta) ==
    [u EXCEPT !.PromptTokens = @ + meta.InputTokens,
              !.CompletionTokens = @ + meta.OutputTokens]

\* Variant of MetaId: the "chatcmpl-" prefix is missing.
MetaIdBare(meta) == meta.Id

\* id = fmt.Sprintf("chatcmpl-%s", meta.Id)
MetaId(meta) == "chatcmpl-" \o meta.Id

\* The client connection closes while the stream is being relayed.
ClientDisconnect ==
    /\ pc \in {"loop", "handling"}
    /\ ~clientGone
    /\ clientGone' = TRUE
    /\ UNCHANGED << pc, ctx, createdTime, upstream, streamState, closeCalls, received,
                    event, usage, id, frames, origin, pumpExit, ret, doReq, restVars >>

\* The write loop sees clientGone before calling step again: c.Stream returns.
StreamClientGone ==
    /\ pc = "loop"
    /\ clientGone
    /\ StreamReturn("client")
    /\ UNCHANGED << ctx, createdTime, upstream, clientGone, received, event, usage,
                    id, frames, origin, doReq, restVars >>

\* event, ok := <-stream.Events() with ok: the provider delivered one more event.
RecvEvent ==
    /\ pc = "loop"
    /\ ~clientGone
    /\ Len(received) < MaxEvents
    /\ \E e \in Events :
          /\ received' = Append(received, e)
          /\ event' = e
    /\ pc' = "handling"
    /\ UNCHANGED << ctx, createdTime, upstream, streamState, closeCalls, clientGone,
                    usage, id, frames, origin, pumpExit, ret, doReq, restVars >>

\* Variant of RecvClosed: the loop stops on closure without the terminator.
RecvClosedSilent ==
    /\ pc = "loop"
    /\ ~clientGone
    /\ StreamReturn("closed")
    /\ UNCHANGED << ctx, createdTime, upstream, clientGone, received, event, usage,
                    id, frames, origin, doReq, restVars >>

\* !ok: the channel is closed; render the terminator and stop.
RecvClosed ==
    /\ pc = "loop"
    /\ ~clientGone
    /\ Render(DoneFrame, Len(received) + 1)
    /\ StreamReturn("closed")
    /\ UNCHANGED << ctx, createdTime, upstream, clientGone, received, event, usage,
                    id, doReq, restVars >>

\* Variant of HandleDecodeError: the terminator is rendered before stopping.
HandleDecodeErrorDone ==
    /\ pc = "handling"
    /\ event.type = "chunk"
    /\ ~event.decodeOk
    /\ Render(DoneFrame, Len(received) + 1)
    /\ StreamReturn("decode")
    /\ event' = NoEvent
    /\ UNCHANGED << ctx, createdTime, upstream, clientGone, received, usage, id, doReq, restVars >>

\* case *types.ResponseStreamMemberChunk, Decode fails: log, return false.
HandleDecodeError ==
    /\ pc = "handling"
    /\ event.type = "chunk"
    /\ ~event.decodeOk
    /\ StreamReturn("decode")
    /\ event' = NoEvent
    /\ UNCHANGED << ctx, createdTime, upstream, clientGone, received, usage, id,
                    frames, origin, doReq, restVars >>

\* meta != nil: accumulate usage, capture the id, return true without a frame.
HandleMeta ==
    /\ pc = "handling"
    /\ event.type = "chunk"
    /\ event.decodeOk
    /\ LET d == StreamResponseClaude2OpenAI(event)
       IN  /\ d.meta.present
           /\ usage' = AddUsage(usage, d.meta)
           /\ id' = MetaId(d.meta)
    /\ pc' = "loop"
    /\ event' = NoEvent
    /\ UNCHANGED << ctx, createdTime, upstream, streamState, closeCalls, clientGone,
                    received, frames, origin, pumpExit, ret, doReq, restVars >>

\* meta == nil and response == nil: return true without a frame.
HandleEmpty ==
    /\ pc = "handling"
    /\ event.type = "chunk"
    /\ event.decodeOk
    /\ LET d == StreamResponseClaude2OpenAI(event)
       IN  /\ ~d.meta.present
           /\ ~d.response.present
    /\ pc' = "loop"
    /\ event' = NoEvent
    /\ UNCHANGED << ctx, createdTime, upstream, streamState, closeCalls, clientGone,
                    received, usage, id, frames, origin, pumpExit, ret, doReq, restVars >>

\* Variant of HandleMarshalError: the callback returns false and the loop stops.
HandleMarshalErrorStops ==
    /\ pc = "handling"
    /\ event.type = "chunk"
    /\ event.decodeOk
    /\ LET d == StreamResponseClaude2OpenAI(event)
       IN  /\ ~d.meta.present
           /\ d.response.present
    /\ ~event.marshalOk
    /\ StreamReturn("marshal")
    /\ event' = NoEvent
    /\ UNCHANGED << ctx, createdTime, upstream, clientGone, received, usage, id,
                    frames, origin, doReq, restVars >>

\* json.Marshal(response) fails: log, return true without a frame.
HandleMarshalError ==
    /\ pc = "handling"
    /\ event.type = "chunk"
    /\ event.decodeOk
    /\ LET d == StreamResponseClaude2OpenAI(event)
       IN  /\ ~d.meta.present
           /\ d.response.present
    /\ ~event.marshalOk
    /\ pc' = "loop"
    /\ event' = NoEvent
    /\ UNCHANGED << ctx, createdTime, upstream, streamState, closeCalls, clientGone,
                    received, usage, id, frames, origin, pumpExit, ret, doReq, restVars >>

\* Variant of HandleContent: content is rendered whether or not metadata came with it.
HandleContentIgnoringMeta ==
    /\ pc = "handling"
    /\ event.type = "chunk"
    /\ event.decodeOk
    /\ LET d == StreamResponseClaude2OpenAI(event)
       IN  /\ d.response.present
           /\ event.marshalOk
           /\ Render(ChunkFrame(id, ctx.OriginModel, createdTime, d.response.Content),
                     Len(received))
    /\ pc' = "loop"
    /\ event' = NoEvent
    /\ UNCHANGED << ctx, createdTime, upstream, streamState, closeCalls, clientGone,
                    received, usage, id, pumpExit, ret, doReq, restVars >>

\* The content chunk is stamped with id, model and created time and rendered.
HandleContent ==
    /\ pc = "handling"
    /\ event.type = "chunk"
    /\ event.decodeOk
    /\ LET d == StreamResponseClaude2OpenAI(event)
       IN  /\ ~d.meta.present
           /\ d.response.present
           /\ event.marshalOk
           /\ Render(ChunkFrame(id, ctx.OriginModel, createdTime, d.response.Content),
                     Len(received))
    /\ pc' = "loop"
    /\ event' = NoEvent
    /\ UNCHANGED << ctx, createdTime, upstream, streamState, closeCalls, clientGone,
                    received, usage, id, pumpExit, ret, doReq, restVars >>

\* Variant of HandleUnknown: the callback returns true and the loop goes on.
HandleUnknownContinue ==
    /\ pc = "handling"
    /\ event.type = "unknown"
    /\ pc' = "loop"
    /\ event' = NoEvent
    /\ UNCHANGED << ctx, createdTime, upstream, streamState, closeCalls, clientGone,
                    received, usage, id, frames, origin, pumpExit, ret, doReq, restVars >>

\* case *types.UnknownUnionMember: print the tag, return false.
HandleUnknown ==
    /\ pc = "handling"
    /\ event.type = "unknown"
    /\ StreamReturn("unknown")
    /\ event' = NoEvent
    /\ UNCHANGED << ctx, createdTime, upstream, clientGone, received, usage, id,
                    frames, origin, doReq, restVars >>

\* default: the union is nil or of an unknown type, return false.
HandleDefault ==
    /\ pc = "handling"
    /\ event.type \notin {"chunk", "unknown"}
    /\ StreamReturn("nil")
    /\ event' = NoEvent
    /\ UNCHANGED << ctx, createdTime, upstream, clientGone, received, usage, id,
                    frames, origin, doReq, restVars >>

-----------------------------------------------------------------------------
(* Handler: the unary path (main.go 71-134) *)

\* Variant of HandlerSetupError: the result of json.Unmarshal is not checked.
HandlerSetupErrorNoDecodeCheck(c, x, resp) ==
    IF ~c.hasChannel THEN "channel not found"
    ELSE IF ~newAwsClient(c.Key).ok THEN "newAwsClient: invalid key"
    ELSE IF ~awsModelID(c.RequestModel).ok THEN "awsModelID: unknown model"
    ELSE IF ~c.hasRequest THEN "request not found"
    ELSE IF ~x.copyOk THEN "copy request"
    ELSE IF ~x.marshalOk THEN "marshal request"
    ELSE IF ~x.invokeOk THEN "InvokeModel"
    ELSE ""

\* The first check that fails, in the order of the code; "" when the response is written.
HandlerSetupError(c, x, resp) ==
    IF ~c.hasChannel THEN "channel not found"
    ELSE IF ~newAwsClient(c.Key).ok THEN "newAwsClient: invalid key"
    ELSE IF ~awsModelID(c.RequestModel).ok THEN "awsModelID: unknown model"
    ELSE IF ~c.hasRequest THEN "request not found"
    ELSE IF ~x.copyOk THEN "copy request"
    ELSE IF ~x.marshalOk THEN "marshal request"
    ELSE IF ~x.invokeOk THEN "InvokeModel"
    ELSE IF ~resp.decodeOk THEN "unmarshal response"
    ELSE ""

\* InvokeModel is reached only when every earlier check passed.
HandlerReachesInvoke(c, x) ==
    /\ c.hasChannel
    /\ newAwsClient(c.Key).ok
    /\ awsModelID(c.RequestModel).ok
    /\ c.hasRequest
    /\ x.copyOk
    /\ x.marshalOk

\* anthropic.ResponseClaude2OpenAI: the canonical response of a decoded native response.
ResponseClaude2OpenAI(claudeResponse) ==
    [present |-> TRUE, StatusCode |-> 0, Model |-> claudeResponse.Model,
     Usage |-> ZeroUsage]

\* usage := relaymodel.Usage{...} built from claudeResponse.Usage.
HandlerUsage(claudeResponse) ==
    [PromptTokens |-> claudeResponse.InputTokens,
     CompletionTokens |-> claudeResponse.OutputTokens,
     TotalTokens |-> claudeResponse.InputTokens + claudeResponse.OutputTokens]

\* Variant of HandlerBody: the model of the native response is left in place.
HandlerBodyNativeModel(claudeResponse, mn) ==
    [ResponseClaude2OpenAI(claudeResponse) EXCEPT
        !.Usage = HandlerUsage(claudeResponse), !.StatusCode = StatusOK]

\* openaiResp.Model = modelName; openaiResp.Usage = usage; c.JSON(http.StatusOK, openaiResp)
HandlerBody(claudeResponse, mn) ==
    [ResponseClaude2OpenAI(claudeResponse) EXCEPT
        !.Model = mn, !.Usage = HandlerUsage(claudeResponse), !.StatusCode = StatusOK]

Handler ==
    /\ pc = "idle"
    /\ \E hc \in BOOLEAN, k \in Keys, rm \in HandlerModels, mn \in ModelNames,
          hr \in BOOLEAN, copyOk \in BOOLEAN, marshalOk \in BOOLEAN,
          invokeOk \in BOOLEAN, resp \in AwsResponses :
          LET c == [hasChannel |-> hc, Key |-> k, RequestModel |-> rm,
                    OriginModel |-> "", hasRequest |-> hr]
              x == [copyOk |-> copyOk, marshalOk |-> marshalOk, invokeOk |-> invokeOk]
              got == IF HandlerReachesInvoke(c, x) /\ invokeOk THEN resp ELSE NoAwsResp
              e == HandlerSetupError(c, x, got)
          IN  /\ ctx' = c
              /\ ext' = x
              /\ modelName' = mn
              /\ upstream' = IF HandlerReachesInvoke(c, x) THEN upstream + 1 ELSE upstream
              /\ awsReq' = IF HandlerReachesInvoke(c, x)
                           THEN BuildAwsReq(c.RequestModel) ELSE awsReq
              /\ awsResp' = got
              /\ IF e # ""
                 THEN /\ ret' = wrapErr(e)
                      /\ written' = written
                 ELSE /\ ret' = [returned |-> TRUE, errNil |-> TRUE, StatusCode |-> 0,
                                 Message |-> "", usageNil |-> FALSE,
                                 usage |-> HandlerUsage(got)]
                      /\ written' = HandlerBody(got, mn)
    /\ pc' = "handlerReturned"
    /\ UNCHANGED << createdTime, streamState, closeCalls, clientGone, received, event,
                    usage, id, frames, origin, pumpExit, doReq, hdr, helper, stageOk >>

-----------------------------------------------------------------------------
(* DoRequest (relay/channel/common.go 40-51) *)

\* util.HTTPClient.Do returns a response ("ok"), an error ("err") or neither ("nil");
\* the transport may itself have closed the outbound body by then.
DoOutcomes == {"ok", "err", "nil"}

\* Variant of DoRequestResult: a nil response with a nil error is handed back as it is.
DoRequestResultNilPassed(o, transportClosed) ==
    [outcome |-> o,
     reqBodyClosed |-> (transportClosed \/ o = "ok"),
     inBodyClosed |-> (o = "ok"),
     respNil |-> (o # "ok"),
     errNil |-> (o # "err")]

\* What DoRequest leaves behind for an outcome of HTTPClient.Do: the error is returned
\* as it is, a nil response becomes an error, and only then are the two bodies closed.
DoRequestResult(o, transportClosed) ==
    [outcome |-> o,
     reqBodyClosed |-> (transportClosed \/ o = "ok"),
     inBodyClosed |-> (o = "ok"),
     respNil |-> (o # "ok"),
     errNil |-> (o = "ok")]

DoRequest ==
    /\ pc = "idle"
    /\ \E o \in DoOutcomes, transportClosed \in BOOLEAN :
          doReq' = DoRequestResult(o, transportClosed)
    /\ pc' = "doRequestReturned"
    /\ UNCHANGED << streamVars, restVars >>

-----------------------------------------------------------------------------
(* DoRequestHelper (relay/channel/common.go 20-38) *)

\* The stages in the order of the code.
StageOrder == << "GetRequestURL", "NewRequest", "SetupRequestHeader", "DoRequest" >>

\* The stages run, the result and the wrapping message, given the outcome of each stage
\* (d is what DoRequest returned, used only when that stage is reached).
HelperResult(urlOk, newOk, headerOk, d) ==
    IF ~urlOk
    THEN [stages |-> SubSeq(StageOrder, 1, 1), respNil |-> TRUE, errNil |-> FALSE,
          Message |-> "get request url failed", doCalls |-> 0]
    ELSE IF ~newOk
    THEN [stages |-> SubSeq(StageOrder, 1, 2), respNil |-> TRUE, errNil |-> FALSE,
          Message |-> "new request failed", doCalls |-> 0]
    ELSE IF ~headerOk
    THEN [stages |-> SubSeq(StageOrder, 1, 3), respNil |-> TRUE, errNil |-> FALSE,
          Message |-> "setup request header failed", doCalls |-> 0]
    ELSE IF ~d.errNil
    THEN [stages |-> StageOrder, respNil |-> TRUE, errNil |-> FALSE,
          Message |-> "do request failed", doCalls |-> 1]
    ELSE [stages |-> StageOrder, respNil |-> d.respNil, errNil |-> TRUE,
          Message |-> "", doCalls |-> 1]

DoRequestHelper ==
    /\ pc = "idle"
    /\ \E urlOk \in BOOLEAN, newOk \in BOOLEAN, headerOk \in BOOLEAN,
          o \in DoOutcomes, transportClosed \in BOOLEAN :
          LET d == DoRequestResult(o, transportClosed)
              h == HelperResult(urlOk, newOk, headerOk, d)
          IN  /\ helper' = h
              /\ stageOk' = [url |-> urlOk, new |-> newOk, header |-> headerOk]
              /\ doReq' = IF h.doCalls = 1 THEN d ELSE doReq
    /\ pc' = "helperReturned"
    /\ UNCHANGED << streamVars, ext, awsReq, modelName, awsResp, written, hdr >>

-----------------------------------------------------------------------------
(* SetupCommonRequestHeader (relay/channel/common.go 12-18) *)

ContentTypes == { "", "application/json" }

Accepts == { "", "application/json", "text/event-stream" }

\* Variant of SetupCommonRequestHeader: the stream flag is not consulted.
SetupCommonRequestHeaderAnyRequest(inContentType, inAccept, isStream) ==
    [inContentType |-> inContentType, inAccept |-> inAccept, IsStream |-> isStream,
     outContentType |-> inContentType,
     outAccept |-> IF inAccept = "" THEN "text/event-stream" ELSE inAccept]

\* req.Header.Set of Content-Type and Accept from the inbound request (Get gives "" for
\* a header that is not there), then Accept again for a stream without an Accept.
SetupCommonRequestHeader(inContentType, inAccept, isStream) ==
    LET h1 == [ContentType |-> inContentType, Accept |-> ""]
        h2 == [h1 EXCEPT !.Accept = inAccept]
        h3 == IF isStream /\ inAccept = ""
              THEN [h2 EXCEPT !.Accept = "text/event-stream"]
              ELSE h2
    IN  [inContentType |-> inContentType, inAccept |-> inAccept, IsStream |-> isStream,
         outContentType |-> h3.ContentType, outAccept |-> h3.Accept]

SetupCommonRequestHeaderCall ==
    /\ pc = "idle"
    /\ \E ct \in ContentTypes, acc \in Accepts, isStream \in BOOLEAN :
          hdr' = SetupCommonRequestHeader(ct, acc, isStream)
    /\ pc' = "headerReturned"
    /\ UNCHANGED << streamVars, doReq, ext, awsReq, modelName, awsResp, written,
                    helper, stageOk >>

-----------------------------------------------------------------------------

Next ==
    \/ StreamHandlerCall
    \/ ClientDisconnect
    \/ StreamClientGone
    \/ RecvEvent
    \/ RecvClosed
    \/ HandleDecodeError
    \/ HandleMeta
    \/ HandleEmpty
    \/ HandleMarshalError
    \/ HandleContent
    \/ HandleUnknown
    \/ HandleDefault
    \/ Handler
    \/ DoRequest
    \/ DoRequestHelper
    \/ SetupCommonRequestHeaderCall

Spec == Init /\ [][Next]_vars

TypeOK ==
    /\ pc \in {"idle", "loop", "handling", "returned", "doRequestReturned",
              "handlerReturned", "headerReturned", "helperReturned"}
    /\ Len(received) <= MaxEvents
    /\ Len(frames) = Len(origin)

-----------------------------------------------------------------------------
(* Properties *)

Last(q) == q[Len(q)]

Front(q) == SubSeq(q, 1, Len(q) - 1)

\* The event decodes to metadata (meta != nil).
IsMetaEvent(e) == e.type = "chunk" /\ e.decodeOk /\ e.meta.present

\* The event is one a frame is rendered for.
IsFrameEvent(e) ==
    e.type = "chunk" /\ e.decodeOk /\ ~e.meta.present /\ e.response.present /\ e.marshalOk

RECURSIVE SumInput(_)
SumInput(q) ==
    IF q = <<>> THEN 0
    ELSE (IF IsMetaEvent(Head(q)) THEN Head(q).meta.InputTokens ELSE 0) + SumInput(Tail(q))

RECURSIVE SumOutput(_)
SumOutput(q) ==
    IF q = <<>> THEN 0
    ELSE (IF IsMetaEvent(Head(q)) THEN Head(q).meta.OutputTokens ELSE 0) + SumOutput(Tail(q))

RECURSIVE CountFrameEvents(_)
CountFrameEvents(q) ==
    IF q = <<>> THEN 0
    ELSE (IF IsFrameEvent(Head(q)) THEN 1 ELSE 0) + CountFrameEvents(Tail(q))

ChunkFrameIdx == { k \in 1..Len(frames) : frames[k].kind = "chunk" }

DoneFrameIdx == { k \in 1..Len(frames) : frames[k].kind = "done" }

\* The native stream was opened and StreamHandler has returned.
StreamReturned == pc = "returned" /\ pumpExit # "none"

\* C1: a stream that ends with the event channel being closed has exactly one
\* "data: [DONE]" frame, that frame is the last frame written, and in no state is a
\* [DONE] frame followed by another frame.
C1_DoneOnceLast ==
    /\ \A k \in DoneFrameIdx : k = Len(frames)
    /\ (pc = "returned" /\ pumpExit = "closed") =>
          /\ Cardinality(DoneFrameIdx) = 1
          /\ Len(frames) >= 1
          /\ Last(frames) = DoneFrame

\* C1 witness: a closed stream with two content frames followed by [DONE].
C1_Witness ==
    /\ pc = "returned"
    /\ pumpExit = "closed"
    /\ Len(frames) = 3
    /\ frames[1].kind = "chunk"
    /\ frames[2].kind = "chunk"
    /\ frames[3] = DoneFrame

\* C2 (as claimed): all content frames written in one stream carry the same id.
C2_AllFramesSameId ==
    \A j, k \in ChunkFrameIdx : frames[j].Id = frames[k].Id

\* C3: when the stream so far is one metadata event followed only by events that carry
\* no metadata, every content frame carries "chatcmpl-" + that metadata's Id.
C3_IdFromFirstMeta ==
    ( /\ Len(received) >= 1
      /\ IsMetaEvent(received[1])
      /\ \A i \in 2..Len(received) : ~IsMetaEvent(received[i]) )
    => \A k \in ChunkFrameIdx : frames[k].Id = "chatcmpl-" \o received[1].meta.Id

\* C3 witness: one metadata event, then three content events, three frames written.
C3_Witness ==
    /\ Len(received) = 4
    /\ IsMetaEvent(received[1])
    /\ \A i \in 2..4 : IsFrameEvent(received[i])
    /\ pc = "loop"
    /\ Cardinality(ChunkFrameIdx) = 3
    /\ \A k \in ChunkFrameIdx : frames[k].Id = "chatcmpl-" \o received[1].meta.Id

\* C4: the running totals are the sums of InputTokens and OutputTokens over the
\* metadata-bearing events handled so far (so they change on metadata events only),
\* and on every exit after the stream was opened the returned Usage carries these sums
\* over the events received before the exit.
C4_UsageIsSum ==
    /\ pc = "loop" =>
          /\ usage.PromptTokens = SumInput(received)
          /\ usage.CompletionTokens = SumOutput(received)
    /\ pc = "handling" =>
          /\ usage.PromptTokens = SumInput(Front(received))
          /\ usage.CompletionTokens = SumOutput(Front(received))
    /\ StreamReturned =>
          /\ ~ret.usageNil
          /\ ret.usage.PromptTokens = SumInput(received)
          /\ ret.usage.CompletionTokens = SumOutput(received)

\* C4 witness: two metadata events, then an exit that is not a channel closure.
C4_Witness ==
    /\ StreamReturned
    /\ pumpExit \in {"decode", "unknown", "nil", "client"}
    /\ Len(received) >= 2
    /\ IsMetaEvent(received[1])
    /\ IsMetaEvent(received[2])
    /\ received[1] # received[2]
    /\ ret.usage.PromptTokens = 4
    /\ ret.usage.CompletionTokens = 2

\* C5 (as claimed): the Usage StreamHandler returns has
\* TotalTokens = PromptTokens + CompletionTokens.
C5_TotalIsPromptPlusCompletion ==
    (pc = "returned" /\ ~ret.usageNil) =>
        ret.usage.TotalTokens = ret.usage.PromptTokens + ret.usage.CompletionTokens

\* C6: an event with an unknown tag, or of a nil/unrecognised type, is the last event
\* pulled; no frame is written for it, no [DONE] frame exists in any state after it,
\* the loop is never re-entered, and StreamHandler returns the accumulated Usage.
C6_UnknownEventStops ==
    \A i \in 1..Len(received) :
        received[i].type \in {"unknown", "nil"} =>
            /\ i = Len(received)
            /\ \A k \in 1..Len(frames) : origin[k] < i
            /\ DoneFrameIdx = {}
            /\ pc \in {"handling", "returned"}
            /\ pc = "returned" =>
                  /\ pumpExit \in {"unknown", "nil"}
                  /\ ~ret.usageNil
                  /\ ret.usage.PromptTokens = SumInput(received)
                  /\ ret.usage.CompletionTokens = SumOutput(received)

\* C6 witness: metadata and a content frame, then an unknown-tag event ended the stream.
C6_Witness ==
    /\ pc = "returned"
    /\ pumpExit = "unknown"
    /\ Len(received) = 3
    /\ Last(received).type = "unknown"
    /\ Len(frames) = 1
    /\ ret.usage.PromptTokens > 0

\* C7: a chunk that fails to decode is the last event pulled; no frame is written for
\* it, no [DONE] frame exists in any state after it (whatever was written before), and
\* StreamHandler returns the Usage accumulated before the failure.
C7_DecodeErrorStops ==
    \A i \in 1..Len(received) :
        (received[i].type = "chunk" /\ ~received[i].decodeOk) =>
            /\ i = Len(received)
            /\ \A k \in 1..Len(frames) : origin[k] < i
            /\ DoneFrameIdx = {}
            /\ pc \in {"handling", "returned"}
            /\ pc = "returned" =>
                  /\ pumpExit = "decode"
                  /\ ~ret.usageNil
                  /\ ret.usage.PromptTokens = SumInput(Front(received))
                  /\ ret.usage.CompletionTokens = SumOutput(Front(received))

\* C7 witness: a decode failure after a metadata event and a written content frame.
C7_Witness ==
    /\ pc = "returned"
    /\ pumpExit = "decode"
    /\ Len(received) = 3
    /\ ~Last(received).decodeOk
    /\ Len(frames) = 1
    /\ frames[1].kind = "chunk"
    /\ ret.usage.PromptTokens > 0

\* C8: while the write loop runs the native stream is open and unclosed; once
\* StreamHandler has returned after opening it, by any exit, the stream is closed and
\* Close was called exactly once; no returned state leaves the stream open.
C8_StreamClosedOnce ==
    /\ pc \in {"loop", "handling"} => (streamState = "open" /\ closeCalls = 0)
    /\ StreamReturned => (streamState = "closed" /\ closeCalls = 1)
    /\ pc = "returned" => streamState # "open"

\* C8 witness: the loop stopped because the client went away, after a frame was written.
C8_Witness ==
    /\ StreamReturned
    /\ pumpExit = "client"
    /\ clientGone
    /\ Len(frames) >= 1
    /\ streamState = "closed"

\* C9 (as claimed): when DoRequest returns, on any path, the outbound request body
\* and the inbound request body have both been closed.
C9_BodiesClosedOnReturn ==
    pc = "doRequestReturned" => (doReq.reqBodyClosed /\ doReq.inBodyClosed)

\* C10: frames are written in the order of the events they were written for, at most
\* one per event, each carrying the content of its event; an event is in flight only
\* while it is being handled, and when the next event is pulled every earlier event
\* has had its frame written.
C10_FramesInEventOrder ==
    /\ \A j, k \in 1..Len(frames) : j < k => origin[j] < origin[k]
    /\ \A k \in ChunkFrameIdx :
          /\ origin[k] \in 1..Len(received)
          /\ IsFrameEvent(received[origin[k]])
          /\ frames[k].Data = received[origin[k]].response.Content
    /\ (event # NoEvent) <=> (pc = "handling")
    /\ pc = "handling" =>
          /\ event = Last(received)
          /\ Cardinality(ChunkFrameIdx) = CountFrameEvents(Front(received))
    /\ pc = "loop" => Cardinality(ChunkFrameIdx) = CountFrameEvents(received)

\* C10 witness: two different content events with a frameless event between them.
C10_Witness ==
    /\ pc = "loop"
    /\ Len(received) = 3
    /\ IsFrameEvent(received[1])
    /\ ~IsFrameEvent(received[2])
    /\ IsFrameEvent(received[3])
    /\ received[1] # received[3]
    /\ Len(frames) = 2
    /\ origin = <<1, 3>>

\* Handler or StreamHandler has been called.
Called == pc \in {"loop", "handling", "returned", "handlerReturned"}

\* Handler or StreamHandler has returned.
CallReturned == pc \in {"returned", "handlerReturned"}

\* Number of newline-separated components of a key.
KeyComponents(key) == Cardinality({ i \in 1..Len(key) : key[i] = "\n" }) + 1

\* The model table of the Bedrock user guide: canonical name, native identifier.
ModelTable ==
    { <<"claude-instant-1.2", "anthropic.claude-instant-v1">>,
      <<"claude-2.0", "anthropic.claude-v2">>,
      <<"claude-2.1", "anthropic.claude-v2:1">>,
      <<"claude-3-sonnet-20240229", "anthropic.claude-3-sonnet-20240229-v1:0">>,
      <<"claude-3-opus-20240229", "anthropic.claude-3-opus-20240229-v1:0">>,
      <<"claude-3-haiku-20240307", "anthropic.claude-3-haiku-20240307-v1:0">> }

TableNames == { t[1] : t \in ModelTable }

\* C11: a call whose channel key does not have exactly two newline-separated
\* components has returned an error with nil usage, with no upstream call issued, no
\* stream opened and nothing written to the client (the newAwsClient error when the
\* channel is present); a key with exactly two components never yields that error.
C11_InvalidKeyFailsBeforeUpstream ==
    /\ (Called /\ KeyComponents(ctx.Key) # 2) =>
          /\ CallReturned
          /\ ~ret.errNil
          /\ ret.usageNil
          /\ upstream = 0
          /\ ~awsReq.present
          /\ streamState = "none"
          /\ frames = <<>>
          /\ ~written.present
          /\ ctx.hasChannel => ret.Message = "newAwsClient: invalid key"
    /\ (Called /\ KeyComponents(ctx.Key) = 2) => ret.Message # "newAwsClient: invalid key"

\* C11 witness: StreamHandler returned the newAwsClient error for a three-component key.
C11_Witness ==
    /\ pc = "returned"
    /\ ctx.hasChannel
    /\ ctx.Key = <<"A", "\n", "S", "\n">>
    /\ ret.Message = "newAwsClient: invalid key"
    /\ upstream = 0

\* C12: the model id of every upstream request is the table entry of the request model;
\* awsModelID gives an error and an empty identifier for every name outside the table,
\* and a call with such a name has returned an error with no upstream call issued.
C12_ModelIdFromTable ==
    /\ \A m \in HandlerModels \cup StreamModels :
          m \notin TableNames => (~awsModelID(m).ok /\ awsModelID(m).id = "")
    /\ (Called /\ awsReq.present) => <<ctx.RequestModel, awsReq.ModelId>> \in ModelTable
    /\ (Called /\ ctx.RequestModel \notin TableNames) =>
          /\ CallReturned
          /\ ~ret.errNil
          /\ ret.usageNil
          /\ upstream = 0
          /\ ~awsReq.present
          /\ (ctx.hasChannel /\ KeyComponents(ctx.Key) = 2) =>
                ret.Message = "awsModelID: unknown model"

\* C12 witness: Handler refused a name outside the table before any upstream call.
C12_Witness ==
    /\ pc = "handlerReturned"
    /\ ctx.RequestModel = "gpt-4"
    /\ ret.Message = "awsModelID: unknown model"
    /\ upstream = 0

\* C13: when Handler succeeds, the body it wrote has status 200, the model field is the
\* modelName argument, and its usage, which is also the returned Usage, is the native
\* input count, the native output count and their sum.
C13_UnaryModelAndUsage ==
    (pc = "handlerReturned" /\ ret.errNil) =>
        /\ awsResp.present
        /\ awsResp.decodeOk
        /\ written.present
        /\ written.StatusCode = 200
        /\ written.Model = modelName
        /\ written.Usage.PromptTokens = awsResp.InputTokens
        /\ written.Usage.CompletionTokens = awsResp.OutputTokens
        /\ written.Usage.TotalTokens = awsResp.InputTokens + awsResp.OutputTokens
        /\ ~ret.usageNil
        /\ ret.usage = written.Usage

\* C13 witness: native counts 10 and 5 give {10, 5, 15} under a model name that is not
\* the one the native response names.
C13_Witness ==
    /\ pc = "handlerReturned"
    /\ ret.errNil
    /\ awsResp.Model # modelName
    /\ ret.usage = [PromptTokens |-> 10, CompletionTokens |-> 5, TotalTokens |-> 15]
    /\ written.Model = modelName

\* A failure of one of Handler's stages.
HandlerFailure ==
    \/ ~ctx.hasChannel
    \/ KeyComponents(ctx.Key) # 2
    \/ ctx.RequestModel \notin TableNames
    \/ ~ctx.hasRequest
    \/ ~ext.copyOk
    \/ ~ext.marshalOk
    \/ ~ext.invokeOk
    \/ (awsResp.present /\ ~awsResp.decodeOk)

\* C14: every failure of Handler returns an error with status 500 and a message, a nil
\* usage, and nothing written to the client; no returned error comes with a body.
C14_UnaryFailureIsOneEnvelope ==
    pc = "handlerReturned" =>
        /\ HandlerFailure =>
              /\ ~ret.errNil
              /\ ret.StatusCode = 500
              /\ ret.Message # ""
              /\ ret.usageNil
              /\ ~written.present
        /\ ~ret.errNil => (HandlerFailure /\ ~written.present)

\* C14 witness: the native response failed to decode.
C14_Witness ==
    /\ pc = "handlerReturned"
    /\ awsResp.present
    /\ ~awsResp.decodeOk
    /\ ret.Message = "unmarshal response"
    /\ ~written.present

\* C15: the outbound Content-Type is the inbound one; the outbound Accept is the inbound
\* one except for a streaming request without an inbound Accept, which gets
\* "text/event-stream"; a non-streaming request without an inbound Accept gets "".
C15_CommonHeaders ==
    pc = "headerReturned" =>
        /\ hdr.outContentType = hdr.inContentType
        /\ (hdr.IsStream /\ hdr.inAccept = "") => hdr.outAccept = "text/event-stream"
        /\ ~(hdr.IsStream /\ hdr.inAccept = "") => hdr.outAccept = hdr.inAccept
        /\ (~hdr.IsStream /\ hdr.inAccept = "") => hdr.outAccept = ""

\* C15 witness: a non-streaming request without Accept keeps an empty Accept.
C15_Witness ==
    /\ pc = "headerReturned"
    /\ ~hdr.IsStream
    /\ hdr.inAccept = ""
    /\ hdr.outAccept = ""
    /\ hdr.outContentType = "application/json"

\* A failure of one of StreamHandler's stages before the stream is opened.
StreamSetupFailure ==
    \/ ~ctx.hasChannel
    \/ KeyComponents(ctx.Key) # 2
    \/ ctx.RequestModel \notin TableNames
    \/ ~ctx.hasRequest
    \/ ~ext.copyOk
    \/ ~ext.marshalOk
    \/ ~ext.invokeOk

\* C16 (as claimed): every failure of Handler and StreamHandler, the failures inside
\* the write loop (chunk decode failure, unknown event tag) included, returns a non-nil
\* error with status 500.
C16_EveryFailureReturnsEnvelope ==
    /\ (pc = "handlerReturned" /\ HandlerFailure) =>
          (~ret.errNil /\ ret.StatusCode = 500)
    /\ (pc = "returned" /\ (StreamSetupFailure \/ pumpExit \in {"decode", "unknown", "nil"})) =>
          (~ret.errNil /\ ret.StatusCode = 500)

\* C17 (as claimed): every content frame written carries a non-empty identifier.
C17_FrameIdNonEmpty ==
    \A k \in ChunkFrameIdx : frames[k].Id # ""

\* The first stage of DoRequestHelper that fails, 0 when none does.
FirstFailedStage ==
    IF ~stageOk.url THEN 1
    ELSE IF ~stageOk.new THEN 2
    ELSE IF ~stageOk.header THEN 3
    ELSE IF doReq.outcome # "ok" THEN 4
    ELSE 0

\* C18: DoRequestHelper runs GetRequestURL, NewRequest, SetupRequestHeader and DoRequest
\* in this order and stops at the first stage that fails, returning a nil response and
\* the error wrapped for that stage, with no transport call unless the first three
\* stages passed; DoRequest and DoRequestHelper return an error for a nil response
\* with a nil error, and never return both a response and an error, or neither.
C18_HelperStagesAndResult ==
    /\ pc = "doRequestReturned" =>
          /\ doReq.respNil # doReq.errNil
          /\ doReq.outcome = "nil" => (doReq.respNil /\ ~doReq.errNil)
    /\ pc = "helperReturned" =>
          /\ helper.respNil # helper.errNil
          /\ Len(helper.stages) \in 1..4
          /\ helper.stages = SubSeq(StageOrder, 1, Len(helper.stages))
          /\ FirstFailedStage # 0 =>
                /\ Len(helper.stages) = FirstFailedStage
                /\ helper.respNil
                /\ ~helper.errNil
                /\ helper.Message =
                      << "get request url failed", "new request failed",
                         "setup request header failed",
                         "do request failed" >>[FirstFailedStage]
          /\ FirstFailedStage = 0 => (Len(helper.stages) = 4 /\ helper.errNil)
          /\ helper.doCalls = (IF Len(helper.stages) = 4 THEN 1 ELSE 0)
          /\ Len(helper.stages) < 4 => doReq = NoDoReq

\* C18 witness: all stages ran and the transport gave a nil response with a nil error.
C18_Witness ==
    /\ pc = "helperReturned"
    /\ Len(helper.stages) = 4
    /\ doReq.outcome = "nil"
    /\ helper.respNil
    /\ helper.Message = "do request failed"

\* The event at position i of received has been handled to the end.
Handled(i) == i < Len(received) \/ pc # "handling"

\* The write loop went on after the event at position i.
WentOnAfter(i) ==
    \/ i < Len(received)
    \/ pc = "loop"
    \/ (pc = "returned" /\ pumpExit \in {"closed", "client"})

\* C19: no frame is ever written for a decoded chunk that yields metadata, with or
\* without content, nor for one that yields neither; the loop goes on after it, and
\* the running totals include the usage of every handled metadata event.
C19_MetaTakesPrecedence ==
    /\ \A i \in 1..Len(received) :
          ( /\ received[i].type = "chunk"
            /\ received[i].decodeOk
            /\ (received[i].meta.present \/ ~received[i].response.present) )
          => /\ \A k \in 1..Len(frames) : origin[k] # i
             /\ Handled(i) => WentOnAfter(i)
    /\ pc = "loop" =>
          /\ usage.PromptTokens = SumInput(received)
          /\ usage.CompletionTokens = SumOutput(received)

\* C19 witness: an event with metadata and content was handled without a frame, its
\* usage was counted, and the content event after it was rendered.
C19_Witness ==
    /\ pc = "loop"
    /\ Len(received) = 2
    /\ received[1].meta.present
    /\ received[1].response.present
    /\ IsFrameEvent(received[2])
    /\ origin = <<2>>
    /\ usage.PromptTokens = received[1].meta.InputTokens
    /\ usage.PromptTokens > 0

\* The content of the event could not be serialised.
IsMarshalFailure(e) ==
    e.type = "chunk" /\ e.decodeOk /\ ~e.meta.present /\ e.response.present /\ ~e.marshalOk

\* C20: no frame is written for a chunk whose content fails to serialise and the loop
\* goes on after it; every later content event still gets its frame; a returned stream
\* lacks the [DONE] frame exactly when the loop ended by a decode failure, an unknown
\* or unrecognised event type, or a client disconnect.
C20_MarshalErrorNotTerminal ==
    /\ \A i \in 1..Len(received) :
          IsMarshalFailure(received[i]) =>
             /\ \A k \in 1..Len(frames) : origin[k] # i
             /\ Handled(i) => WentOnAfter(i)
    /\ pc = "loop" => Cardinality(ChunkFrameIdx) = CountFrameEvents(received)
    /\ StreamReturned =>
          /\ pumpExit \in {"closed", "decode", "unknown", "nil", "client"}
          /\ (DoneFrameIdx = {}) <=> (pumpExit \in {"decode", "unknown", "nil", "client"})

\* C20 witness: a serialisation failure, then a rendered content event, then [DONE].
C20_Witness ==
    /\ pc = "returned"
    /\ pumpExit = "closed"
    /\ Len(received) = 2
    /\ IsMarshalFailure(received[1])
    /\ IsFrameEvent(received[2])
    /\ origin = <<2, 3>>
    /\ frames[2] = DoneFrame

====
